---- MODULE Spec2Model ----
(***************************************************************************)
(* vdsm/hostdev.py: enumeration of the host devices libvirt exposes, their *)
(* cross-reference against the running VMs, and detach / reattach /        *)
(* SR-IOV reconfiguration through libvirt and the supervdsm helper.        *)
(*                                                                         *)
(* Conventions.  A Python str is a sequence of one-character strings, so   *)
(* that slicing, str.replace and the substring test of `in` are computed   *)
(* as Python computes them.  Dictionary keys, XML tags and attribute names *)
(* are only ever compared, and are TLA+ strings.  A value that may be None *)
(* is a sequence of length 0 (None) or 1.  A dict is a function whose      *)
(* DOMAIN is its key set.                                                  *)
(***************************************************************************)
EXTENDS Integers, Sequences, FiniteSets, TLC

VARIABLES
    pc,       \* position of the call in progress
    op,       \* the public operation in progress
    args,     \* its arguments
    libvirt,  \* what libvirtconnection.get() answers during this call
    sysfs,    \* the sriov_totalvfs pseudo-files that exist: path -> content
    locals,   \* the local variables of the call in progress
    calls,    \* the collaborator calls made so far by the call in progress
    ret       \* how the call ended: returned value or raised exception

vars == <<pc, op, args, libvirt, sysfs, locals, calls, ret>>

(***************************************************************************)
(* Bounds of the model.                                                    *)
(***************************************************************************)
MaxHexLen == 2      \* hex digits per PCI address field in the codec runs
MaxDevs == 3        \* devices libvirt lists in one list_by_caps call
MaxVMs == 2         \* VM records in the container
MaxNumvfs == 2      \* largest numvfs passed to change_numvfs

(***************************************************************************)
(* Python str and dict primitives.                                         *)
(***************************************************************************)
None == <<>>
Some(v) == <<v>>

\* s[n:]
SliceFrom(s, n) == SubSeq(s, n + 1, Len(s))

\* s.replace(old, new[, count]) for one-character old and new; count < 0
\* replaces every occurrence.
RECURSIVE StrReplace(_, _, _, _)
StrReplace(s, old, new, count) ==
    IF s = <<>> THEN <<>>
    ELSE IF Head(s) = old /\ count # 0
         THEN <<new>> \o StrReplace(Tail(s), old, new, count - 1)
         ELSE <<Head(s)>> \o StrReplace(Tail(s), old, new, count)

\* x in s, for a str s: x is a substring of s.
StrContains(s, x) ==
    \E i \in 1..(Len(s) + 1) :
        /\ i + Len(x) - 1 <= Len(s)
        /\ SubSeq(s, i, i + Len(x) - 1) = x

\* x in t, for a tuple t: x equals one of its items.
TupleContains(t, x) == \E i \in DOMAIN t : t[i] = x

\* d[k] = v
DictSet(d, k, v) == [x \in (DOMAIN d) \cup {k} |-> IF x = k THEN v ELSE d[x]]

EmptyDict == <<>>

\* The strings the code names.
PCI == <<"p", "c", "i">>
USB_DEVICE == <<"u", "s", "b", "_", "d", "e", "v", "i", "c", "e">>
SCSI == <<"s", "c", "s", "i">>
COMPUTER == <<"c", "o", "m", "p", "u", "t", "e", "r">>
PHYS_FUNCTION == <<"p", "h", "y", "s", "_", "f", "u", "n", "c", "t", "i", "o", "n">>
PCI_PREFIX == <<"p", "c", "i", "_">>

_DETACH_REQUIRING_CAPS == <<USB_DEVICE, PCI>>
\* ('pci') is a parenthesised str, not a one-item tuple.
_UDEV_REQUIRING_CAPS == PCI

(***************************************************************************)
(* PCI address <-> device name codec.                                      *)
(***************************************************************************)
\* The same with every '.' replaced, not the first two.
NameToPciPathColons(device_name) ==
    StrReplace(StrReplace(SliceFrom(device_name, 4), "_", ".", -1), ".", ":", -1)

_name_to_pci_path(device_name) ==
    StrReplace(StrReplace(SliceFrom(device_name, 4), "_", ".", -1), ".", ":", 2)

_pci_address_to_name(domain, bus, slot, function) ==
    PCI_PREFIX \o SliceFrom(domain, 2) \o <<"_">> \o SliceFrom(bus, 2) \o <<"_">>
        \o SliceFrom(slot, 2) \o <<"_">> \o SliceFrom(function, 2)

(***************************************************************************)
(* xml.etree.ElementTree.  An Element is [tag, attrib, text, children];    *)
(* etree.fromstring is taken as done: a descriptor is given as its tree.   *)
(***************************************************************************)
Element(tag, attrib, text, children) ==
    [tag |-> tag, attrib |-> attrib, text |-> text, children |-> children]

IsNone(x) == Len(x) = 0

\* Element.find(tag): the first child with that tag, or None.
RECURSIVE FindFirst(_, _)
FindFirst(children, tag) ==
    IF Len(children) = 0 THEN None
    ELSE IF Head(children).tag = tag THEN Some(Head(children))
         ELSE FindFirst(Tail(children), tag)

Find(element, tag) == FindFirst(element.children, tag)

(***************************************************************************)
(* Exceptions.  A computation yields [exc, params]; exc.type = "none" when *)
(* nothing was raised, and exc.at names the statement that raised.         *)
(***************************************************************************)
NoExc == [type |-> "none", at |-> "none"]
Exc(type, at) == [type |-> type, at |-> at]
Ok(params) == [exc |-> NoExc, params |-> params]
Raise(type, at, params) == [exc |-> Exc(type, at), params |-> params]
Raised(st) == st.exc.type # "none"

(***************************************************************************)
(* int(text) for the decimal text of a sysfs pseudo-file.                  *)
(***************************************************************************)
Digits == <<"0", "1", "2", "3", "4", "5", "6", "7", "8", "9">>
IsDigit(c) == \E i \in DOMAIN Digits : Digits[i] = c
DigitValue(c) == (CHOOSE i \in DOMAIN Digits : Digits[i] = c) - 1
IsSpace(c) == c \in {" ", "\n", "\t"}

RECURSIVE StripLeft(_)
StripLeft(s) ==
    IF Len(s) > 0 /\ IsSpace(Head(s)) THEN StripLeft(Tail(s)) ELSE s

RECURSIVE StripRight(_)
StripRight(s) ==
    IF Len(s) > 0 /\ IsSpace(s[Len(s)])
    THEN StripRight(SubSeq(s, 1, Len(s) - 1)) ELSE s

RECURSIVE DecimalValue(_)
DecimalValue(s) ==
    IF Len(s) = 0 THEN 0
    ELSE 10 * DecimalValue(SubSeq(s, 1, Len(s) - 1)) + DigitValue(s[Len(s)])

IsDecimal(s) == Len(s) > 0 /\ \A i \in DOMAIN s : IsDigit(s[i])

\* [exc, params] with params the int, or ValueError.
PyInt(text) ==
    LET t == StripRight(StripLeft(text))
    IN  IF IsDecimal(t) THEN Ok(DecimalValue(t))
        ELSE Raise("ValueError", "int", 0)

(***************************************************************************)
(* _sriov_totalvfs: open() raises IOError when the file does not exist.    *)
(***************************************************************************)
_sriov_totalvfs(device_name, files) ==
    LET path == _name_to_pci_path(device_name)
    IN  IF path \notin DOMAIN files THEN Raise("IOError", "open", 0)
        ELSE PyInt(files[path])

(***************************************************************************)
(* _parse_address and the three address parsers.                           *)
(***************************************************************************)
RECURSIVE ParseAddressFrom(_, _, _)
ParseAddressFrom(caps, children, st) ==
    IF Raised(st) \/ Len(children) = 0 THEN st
    ELSE LET cap == Head(children)
             found == Find(caps, cap)
         IN  IF IsNone(found)
             THEN Raise("AttributeError", "address", st.params)
             ELSE ParseAddressFrom(caps, Tail(children),
                                   Ok(DictSet(st.params, cap, found[1].text)))

_parse_address(caps, children) == ParseAddressFrom(caps, children, Ok(EmptyDict))

_parse_pci_address(caps) ==
    _parse_address(caps, <<"domain", "bus", "slot", "function">>)

_parse_scsi_address(caps) ==
    _parse_address(caps, <<"host", "bus", "target", "lun">>)

_parse_usb_address(caps) == _parse_address(caps, <<"bus", "device">>)

(***************************************************************************)
(* _parse_device_params, statement by statement.  Each step takes the      *)
(* [exc, params] reached so far and passes an exception through.           *)
(***************************************************************************)
\* name = devXML.find('name').text
ParseName(devXML) ==
    LET found == Find(devXML, "name")
    IN  IF IsNone(found) THEN Raise("AttributeError", "name", None)
        ELSE Ok(found[1].text)

\* if name != 'computer': params['parent'] = devXML.find('parent').text
ParseParent(devXML, name, st) ==
    IF Raised(st) \/ name = Some(COMPUTER) THEN st
    ELSE LET found == Find(devXML, "parent")
         IN  IF IsNone(found) THEN Raise("AttributeError", "parent", st.params)
             ELSE Ok(DictSet(st.params, "parent", found[1].text))

\* caps = devXML.find('capability'); params['capability'] = caps.attrib['type']
ParseCapability(devXML, st) ==
    IF Raised(st) THEN st
    ELSE LET caps == Find(devXML, "capability")
         IN  IF IsNone(caps) THEN Raise("AttributeError", "capability", st.params)
             ELSE IF "type" \notin DOMAIN caps[1].attrib
                  THEN Raise("KeyError", "capability", st.params)
                  ELSE Ok(DictSet(st.params, "capability", caps[1].attrib.type))

\* One round of the loop over ('vendor', 'product', 'interface').
ParseElement(caps, element, st) ==
    IF Raised(st) THEN st
    ELSE LET elementXML == Find(caps, element)
         IN  IF IsNone(elementXML) THEN st
             ELSE LET attrib == elementXML[1].attrib
                      text == elementXML[1].text
                      p1 == IF "id" \in DOMAIN attrib
                            THEN DictSet(st.params, element \o "_id", attrib.id)
                            ELSE st.params
                      \* if elementXML.text: neither None nor ''
                      p2 == IF ~IsNone(text) /\ Len(text[1]) > 0
                            THEN DictSet(p1, element, text[1])
                            ELSE p1
                  IN  Ok(p2)

\* _pci_address_to_name(**address.attrib)
CallPciAddressToName(attrib, st) ==
    IF DOMAIN attrib # {"domain", "bus", "slot", "function"}
    THEN Raise("TypeError", "physfn", st.params)
    ELSE Ok(DictSet(st.params, "physfn",
                    _pci_address_to_name(attrib.domain, attrib.bus,
                                         attrib.slot, attrib.function)))

\* physfn = caps.find('capability') and the if that follows it.
ParsePhysfn(caps, st) ==
    IF Raised(st) THEN st
    ELSE LET physfn == Find(caps, "capability")
         IN  IF IsNone(physfn) THEN st
             ELSE IF "type" \notin DOMAIN physfn[1].attrib
                  THEN Raise("KeyError", "physfn", st.params)
                  ELSE IF physfn[1].attrib.type = PHYS_FUNCTION
                          /\ st.params.capability = PCI
                       THEN LET address == Find(physfn[1], "address")
                            IN  IF IsNone(address)
                                THEN Raise("AttributeError", "physfn", st.params)
                                ELSE CallPciAddressToName(address[1].attrib, st)
                       ELSE st

\* iommu_group = caps.find('iommuGroup') and the if that follows it.
ParseIommuGroup(caps, st) ==
    IF Raised(st) THEN st
    ELSE LET iommu_group == Find(caps, "iommuGroup")
         IN  IF IsNone(iommu_group) THEN st
             ELSE IF "number" \notin DOMAIN iommu_group[1].attrib
                  THEN Raise("KeyError", "iommu_group", st.params)
                  ELSE Ok(DictSet(st.params, "iommu_group",
                                  iommu_group[1].attrib.number))

\* The same statement with the except clause missing.
ParseTotalvfsUncaught(name, files, st) ==
    IF Raised(st) THEN st
    ELSE IF IsNone(name) THEN Raise("TypeError", "totalvfs", st.params)
    ELSE LET got == _sriov_totalvfs(name[1], files)
         IN  IF Raised(got) THEN Raise(got.exc.type, "totalvfs", st.params)
             ELSE Ok(DictSet(st.params, "totalvfs", got.params))

\* try: params['totalvfs'] = _sriov_totalvfs(name) / except IOError: pass
ParseTotalvfs(name, files, st) ==
    IF Raised(st) THEN st
    ELSE IF IsNone(name) THEN Raise("TypeError", "totalvfs", st.params)
    ELSE LET got == _sriov_totalvfs(name[1], files)
         IN  IF got.exc.type = "IOError" THEN st
             ELSE IF Raised(got) THEN Raise(got.exc.type, "totalvfs", st.params)
             ELSE Ok(DictSet(st.params, "totalvfs", got.params))

\* address_parser[params['capability']](caps)
CallAddressParser(capability, caps) ==
    IF capability = PCI THEN _parse_pci_address(caps)
    ELSE IF capability = SCSI THEN _parse_scsi_address(caps)
    ELSE IF capability = USB_DEVICE THEN _parse_usb_address(caps)
    ELSE Raise("KeyError", "address_parser", EmptyDict)

\* try: params['address'] = ... / except KeyError: pass
ParseAddress(caps, st) ==
    IF Raised(st) THEN st
    ELSE LET got == CallAddressParser(st.params.capability, caps)
         IN  IF got.exc.type = "KeyError" THEN st
             ELSE IF Raised(got) THEN Raise(got.exc.type, "address", st.params)
             ELSE Ok(DictSet(st.params, "address", got.params))

_parse_device_params(device_xml, files) ==
    LET devXML == device_xml
        named == ParseName(devXML)
    IN  IF Raised(named) THEN Raise(named.exc.type, named.exc.at, EmptyDict)
        ELSE
        LET name == named.params
            s1 == ParseParent(devXML, name, Ok(EmptyDict))
            s2 == ParseCapability(devXML, s1)
        IN  IF Raised(s2) THEN s2
            ELSE
            LET caps == Find(devXML, "capability")[1]
                s3 == ParseElement(caps, "vendor", s2)
                s4 == ParseElement(caps, "product", s3)
                s5 == ParseElement(caps, "interface", s4)
                s6 == ParsePhysfn(caps, s5)
                s7 == ParseIommuGroup(caps, s6)
                s8 == ParseTotalvfs(name, files, s7)
            IN  ParseAddress(caps, s8)

(***************************************************************************)
(* Descriptor documents, as libvirt's XMLDesc produces them, with every    *)
(* part the parser reads present or absent.                                *)
(***************************************************************************)
Str_pci_0000_03_00_0 ==
    <<"p", "c", "i", "_", "0", "0", "0", "0", "_", "0", "3", "_", "0", "0", "_", "0">>
Str_pci_0000_05_10_1 ==
    <<"p", "c", "i", "_", "0", "0", "0", "0", "_", "0", "5", "_", "1", "0", "_", "1">>
Str_usb_1_1 == <<"u", "s", "b", "_", "1", "_", "1">>
Str_net_eth0 == <<"n", "e", "t", "_", "e", "t", "h", "0">>
Str_net == <<"n", "e", "t">>
Str_pc == <<"p", "c">>
Str_virt_functions ==
    <<"v", "i", "r", "t", "_", "f", "u", "n", "c", "t", "i", "o", "n", "s">>
Str_0x0000 == <<"0", "x", "0", "0", "0", "0">>
Str_0x03 == <<"0", "x", "0", "3">>
Str_0x00 == <<"0", "x", "0", "0">>
Str_0x0 == <<"0", "x", "0">>
Str_5 == <<"5">>
Str_8086 == <<"0", "x", "8", "0", "8", "6">>
Str_Intel == <<"I", "n", "t", "e", "l">>
Str_7 == <<"7", "\n">>
Str_garbage == <<"n", "/", "a">>

Text(tag, s) == Element(tag, EmptyDict, Some(s), <<>>)
Empty(tag, attrib) == Element(tag, attrib, None, <<>>)

\* <vendor>, <product>, <interface>: absent, bare, id only, text only, both.
ElementKids(tag) ==
    { <<>>,
      <<Empty(tag, EmptyDict)>>,
      <<Empty(tag, [id |-> Str_8086])>>,
      <<Text(tag, Str_Intel)>>,
      <<Element(tag, [id |-> Str_8086], Some(Str_Intel), <<>>)>> }

ElementKidsShort(tag) ==
    { <<>>, <<Element(tag, [id |-> Str_8086], Some(Str_Intel), <<>>)>> }

AddressAttrib ==
    [domain |-> Str_0x0000, bus |-> Str_0x03, slot |-> Str_0x00, function |-> Str_0x0]

PhysFunction == Element("capability", [type |-> PHYS_FUNCTION], None,
                        <<Empty("address", AddressAttrib)>>)
VirtFunctions == Empty("capability", [type |-> Str_virt_functions])

\* The nested <capability> blocks of the outer one.
NestedKids ==
    { <<>>,
      <<PhysFunction>>,
      <<VirtFunctions>>,
      <<VirtFunctions, PhysFunction>>,
      <<PhysFunction, VirtFunctions>>,
      <<Empty("capability", [type |-> PHYS_FUNCTION])>>,
      <<Empty("capability", EmptyDict)>>,
      <<Element("capability", [type |-> PHYS_FUNCTION], None,
                <<Empty("address", [domain |-> Str_0x0000, bus |-> Str_0x03,
                                    slot |-> Str_0x00])>>)>> }

IommuKids ==
    { <<>>, <<Empty("iommuGroup", [number |-> Str_5])>>,
      <<Empty("iommuGroup", EmptyDict)>> }

PciAddressKids ==
    <<Text("domain", <<"0">>), Text("bus", <<"3">>), Text("slot", <<"0">>),
      Text("function", <<"0">>)>>
ScsiAddressKids ==
    <<Text("host", <<"0">>), Text("bus", <<"0">>), Text("target", <<"0">>),
      Text("lun", <<"0">>)>>
UsbAddressKids == <<Text("bus", <<"1">>), Text("device", <<"1">>)>>

FullAddressKids(type) ==
    IF type = PCI THEN PciAddressKids
    ELSE IF type = SCSI THEN ScsiAddressKids
    ELSE IF type = USB_DEVICE THEN UsbAddressKids
    ELSE <<>>

\* The address sub-elements: all of them, all but the last, none.
AddressKids(type) ==
    LET full == FullAddressKids(type)
    IN  { full, SubSeq(full, 1, Len(full) - 1), <<>> }

CapabilityTypes == {PCI, USB_DEVICE, SCSI, Str_net, Str_pc}

CapabilityElement(attrib, kids) == Element("capability", attrib, None, kids)

CapabilityKidsOf(t) ==
    { <<CapabilityElement([type |-> t], v \o p \o i \o n \o g \o a)>> :
        v \in ElementKids("vendor"),
        p \in ElementKidsShort("product"), i \in ElementKidsShort("interface"),
        n \in NestedKids, g \in IommuKids, a \in AddressKids(t) }

CapabilityKids ==
    {<<>>}
    \cup { <<CapabilityElement(EmptyDict, <<>>)>> }
    \cup UNION { CapabilityKidsOf(t) : t \in CapabilityTypes }

NameKids ==
    { <<>>, <<Text("name", COMPUTER)>>, <<Text("name", Str_pci_0000_03_00_0)>>,
      <<Text("name", Str_usb_1_1)>> }

ParentKids == { <<>>, <<Text("parent", COMPUTER)>> }

Device(name, parent, capability) ==
    Element("device", EmptyDict, None, name \o parent \o capability)

Descriptors ==
    { Device(n, p, c) : n \in NameKids, p \in ParentKids, c \in CapabilityKids }

\* sriov_totalvfs under /sys/bus/pci/devices/<path>/: path -> content.
SysfsFile(device_name, content) ==
    [p \in {_name_to_pci_path(device_name)} |-> content]

SysfsStates ==
    { EmptyDict, SysfsFile(Str_pci_0000_03_00_0, Str_7),
      SysfsFile(Str_pci_0000_03_00_0, Str_garbage) }

(***************************************************************************)
(* State of a finished or not yet started call.                            *)
(***************************************************************************)
NoRet == [exc |-> NoExc, value |-> None]
Returned(value) == [exc |-> NoExc, value |-> value]
Propagated(exc) == [exc |-> exc, value |-> None]

(***************************************************************************)
(* Specification of the descriptor parser: _parse_device_params applied to *)
(* a descriptor and a sysfs state.                                         *)
(***************************************************************************)
InitParse ==
    /\ pc = "call"
    /\ op = "_parse_device_params"
    /\ args \in { [device_xml |-> d] : d \in Descriptors }
    /\ sysfs \in SysfsStates
    /\ libvirt = <<>>
    /\ locals = EmptyDict
    /\ calls = <<>>
    /\ ret = NoRet

ParseDeviceParams ==
    /\ pc = "call"
    /\ op = "_parse_device_params"
    /\ LET st == _parse_device_params(args.device_xml, sysfs)
       IN  ret' = IF Raised(st) THEN Propagated(st.exc) ELSE Returned(st.params)
    /\ pc' = "done"
    /\ UNCHANGED <<op, args, libvirt, sysfs, locals, calls>>

NextParse == ParseDeviceParams

SpecParse == InitParse /\ [][NextParse]_vars

(***************************************************************************)
(* Specification of the codec: a well-formed PCI address is encoded as a   *)
(* device name, and the name as a sysfs path.                              *)
(***************************************************************************)
HexChars == {"0", "a"}
HexPrefix == <<"0", "x">>

\* '0x' followed by 1..MaxHexLen hex digits.
HexStrings ==
    UNION { { HexPrefix \o h : h \in [1..k -> HexChars] } : k \in 1..MaxHexLen }

PciAddresses ==
    [domain : HexStrings, bus : HexStrings, slot : HexStrings, function : HexStrings]

InitCodec ==
    /\ pc = "address"
    /\ op = "codec"
    /\ args \in PciAddresses
    /\ sysfs = EmptyDict
    /\ libvirt = <<>>
    /\ locals = EmptyDict
    /\ calls = <<>>
    /\ ret = NoRet

PciAddressToName ==
    /\ pc = "address"
    /\ op = "codec"
    /\ locals' = [name |-> _pci_address_to_name(args.domain, args.bus,
                                                 args.slot, args.function)]
    /\ pc' = "name"
    /\ UNCHANGED <<op, args, libvirt, sysfs, calls, ret>>

NameToPciPath ==
    /\ pc = "name"
    /\ op = "codec"
    /\ locals' = [name |-> locals.name, path |-> _name_to_pci_path(locals.name)]
    /\ pc' = "path"
    /\ UNCHANGED <<op, args, libvirt, sysfs, calls, ret>>

NextCodec == PciAddressToName \/ NameToPciPath

SpecCodec == InitCodec /\ [][NextCodec]_vars

(***************************************************************************)
(* Reading a name or a path back into its fields.                          *)
(***************************************************************************)
\* s.split(sep)
RECURSIVE SplitOn(_, _)
SplitOn(s, sep) ==
    IF \A i \in DOMAIN s : s[i] # sep THEN <<s>>
    ELSE LET k == CHOOSE i \in DOMAIN s :
                      s[i] = sep /\ \A j \in 1..(i - 1) : s[j] # sep
         IN  <<SubSeq(s, 1, k - 1)>> \o SplitOn(SubSeq(s, k + 1, Len(s)), sep)

\* 'D:B:S.F' -> <<D, B, S, F>>, or <<>> when the path has another shape.
PathFields(path) ==
    LET byColon == SplitOn(path, ":")
    IN  IF Len(byColon) # 3 THEN <<>>
        ELSE LET byDot == SplitOn(byColon[3], ".")
             IN  IF Len(byDot) # 2 THEN <<>>
                 ELSE <<byColon[1], byColon[2], byDot[1], byDot[2]>>

\* The addresses that differ from a in one field.
Neighbours(a) ==
    { [a EXCEPT ![f] = h] : f \in {"domain", "bus", "slot", "function"},
                            h \in HexStrings } \ {a}

NameOf(a) == _pci_address_to_name(a.domain, a.bus, a.slot, a.function)

\* C4: the codec is a round trip.  The name of a well-formed address is
\* 'pci_D_B_S_F' with D, B, S, F the four fields without their '0x'; the path
\* of that name is 'D:B:S.F'; the fields read back from the path encode to the
\* same name; and another name never has the same path.
C4_CodecRoundTrip ==
    /\ pc \in {"name", "path"} =>
         LET parts == SplitOn(locals.name, "_")
         IN  /\ Len(parts) = 5
             /\ parts[1] = PCI
             /\ HexPrefix \o parts[2] = args.domain
             /\ HexPrefix \o parts[3] = args.bus
             /\ HexPrefix \o parts[4] = args.slot
             /\ HexPrefix \o parts[5] = args.function
    /\ pc = "path" =>
         LET parts == SplitOn(locals.name, "_")
             back == PathFields(locals.path)
         IN  /\ locals.path = parts[2] \o <<":">> \o parts[3] \o <<":">>
                                \o parts[4] \o <<".">> \o parts[5]
             /\ Len(back) = 4
             /\ _pci_address_to_name(HexPrefix \o back[1], HexPrefix \o back[2],
                                     HexPrefix \o back[3], HexPrefix \o back[4])
                    = locals.name
             /\ \A b \in Neighbours(args) :
                    /\ NameOf(b) # locals.name
                    /\ _name_to_pci_path(NameOf(b)) # locals.path

\* A name and its path have been computed for an address whose fields have
\* different lengths.
C4_Witness ==
    /\ pc = "path"
    /\ Len(args.domain) # Len(args.function)
    /\ Len(locals.path) = Len(locals.name) - 4

(***************************************************************************)
(* The collaborators.  libvirt is the sequence of node devices the         *)
(* connection knows, each [name, xml]; a call to libvirt or to the         *)
(* supervdsm proxy either completes or raises, and is logged in calls as   *)
(* [fn, args, ok].                                                         *)
(***************************************************************************)
NodeDevice(name, xml) == [name |-> name, xml |-> xml]

Invoked(fn, arguments, ok) == [fn |-> fn, args |-> arguments, ok |-> ok]

LibvirtCalls == {"nodeDeviceLookupByName", "XMLDesc", "listAllDevices",
                 "detachFlags", "reAttach"}
HelperCalls == {"appropriateIommuGroup", "rmAppropriateIommuGroup",
                "udevTrigger", "changeNumvfs"}

\* The exception a failing collaborator call raises.
CallError(fn) ==
    Exc(IF fn \in LibvirtCalls THEN "libvirtError" ELSE "helperError", fn)

\* conn.nodeDeviceLookupByName(name): the device, or None when unknown.
RECURSIVE LookupByName(_, _)
LookupByName(devices, name) ==
    IF Len(devices) = 0 THEN None
    ELSE IF Head(devices).name = name THEN Some(Head(devices))
         ELSE LookupByName(Tail(devices), name)

(***************************************************************************)
(* The devices and calls the device operator is run on.                    *)
(***************************************************************************)
DeviceNames == {Str_pci_0000_03_00_0, Str_usb_1_1}

OperatorCapabilityTypes == {PCI, USB_DEVICE, SCSI, Str_net, Str_pc, <<>>}

OperatorDescriptor(n, p, t, g) ==
    Device(<<Text("name", n)>>, p,
           <<CapabilityElement([type |-> t], g \o FullAddressKids(t))>>)

OperatorHosts ==
    {<<>>}
    \cup { <<NodeDevice(n, OperatorDescriptor(n, p, t, g))>> :
             n \in DeviceNames, p \in ParentKids, t \in OperatorCapabilityTypes,
             g \in { <<>>, <<Empty("iommuGroup", [number |-> Str_5])>> } }

OperatorSysfs == { EmptyDict, SysfsFile(Str_pci_0000_03_00_0, Str_7) }

(***************************************************************************)
(* detach_detachable, reattach_detachable, change_numvfs: one action per   *)
(* collaborator call, in program order.                                    *)
(***************************************************************************)
Init ==
    /\ pc = "idle"
    /\ op = "none"
    /\ args = EmptyDict
    /\ libvirt = <<>>
    /\ sysfs = EmptyDict
    /\ locals = EmptyDict
    /\ calls = <<>>
    /\ ret = NoRet

\* The caller enters detach_detachable(device_name).
CallDetachDetachable ==
    /\ pc = "idle"
    /\ \E name \in DeviceNames, host \in OperatorHosts, files \in OperatorSysfs :
         /\ args' = [device_name |-> name]
         /\ libvirt' = host
         /\ sysfs' = files
    /\ op' = "detach_detachable"
    /\ pc' = "lookup"
    /\ locals' = EmptyDict
    /\ calls' = <<>>
    /\ ret' = NoRet

\* The caller enters reattach_detachable(device_name).
CallReattachDetachable ==
    /\ pc = "idle"
    /\ \E name \in DeviceNames, host \in OperatorHosts, files \in OperatorSysfs :
         /\ args' = [device_name |-> name]
         /\ libvirt' = host
         /\ sysfs' = files
    /\ op' = "reattach_detachable"
    /\ pc' = "lookup"
    /\ locals' = EmptyDict
    /\ calls' = <<>>
    /\ ret' = NoRet

\* The caller enters change_numvfs(device_name, numvfs).
CallChangeNumvfs ==
    /\ pc = "idle"
    /\ \E name \in DeviceNames, numvfs \in 0..MaxNumvfs :
         args' = [device_name |-> name, numvfs |-> numvfs]
    /\ op' = "change_numvfs"
    /\ pc' = "changeNumvfs"
    /\ libvirt' = <<>>
    /\ sysfs' = EmptyDict
    /\ locals' = EmptyDict
    /\ calls' = <<>>
    /\ ret' = NoRet

\* A collaborator call raised: nothing handles it, the caller sees it.
Propagate(fn, arguments) ==
    /\ calls' = Append(calls, Invoked(fn, arguments, FALSE))
    /\ ret' = Propagated(CallError(fn))
    /\ pc' = "done"
    /\ UNCHANGED locals

\* The test below, never true.
AfterUdevNoDetach(capability) == "return"

\* if device_params['capability'] in _DETACH_REQUIRING_CAPS
AfterUdev(capability) ==
    IF TupleContains(_DETACH_REQUIRING_CAPS, capability) THEN "detach" ELSE "return"

\* if device_params['capability'] in _UDEV_REQUIRING_CAPS
AfterParams(capability) ==
    IF StrContains(_UDEV_REQUIRING_CAPS, capability) THEN "appropriate"
    ELSE AfterUdev(capability)

\* libvirtconnection.get().nodeDeviceLookupByName(device_name)
NodeDeviceLookupByName ==
    /\ pc = "lookup"
    /\ LET found == LookupByName(libvirt, args.device_name)
           arguments == <<args.device_name>>
       IN  \/ Propagate("nodeDeviceLookupByName", arguments)
           \/ /\ ~IsNone(found)
              /\ calls' = Append(calls, Invoked("nodeDeviceLookupByName", arguments, TRUE))
              /\ locals' = [libvirt_device |-> found[1]]
              /\ pc' = "xmldesc"
              /\ UNCHANGED ret
    /\ UNCHANGED <<op, args, libvirt, sysfs>>

\* _parse_device_params(libvirt_device.XMLDesc(0)), the return of
\* _get_device_ref_and_params, and iommu_group = device_params['iommu_group'].
GetParamsAndIommuGroup ==
    /\ pc = "xmldesc"
    /\ \/ Propagate("XMLDesc", <<>>)
       \/ /\ calls' = Append(calls, Invoked("XMLDesc", <<>>, TRUE))
          /\ LET st == _parse_device_params(locals.libvirt_device.xml, sysfs)
                 both == [libvirt_device |-> locals.libvirt_device,
                          device_params |-> st.params]
             IN  IF Raised(st)
                 THEN /\ ret' = Propagated(st.exc)
                      /\ pc' = "done"
                      /\ UNCHANGED locals
                 ELSE IF "iommu_group" \notin DOMAIN st.params
                 THEN /\ ret' = Propagated(Exc("KeyError", "iommu_group"))
                      /\ pc' = "done"
                      /\ locals' = both
                 ELSE /\ locals' = [libvirt_device |-> locals.libvirt_device,
                                    device_params |-> st.params,
                                    iommu_group |-> st.params.iommu_group]
                      /\ pc' = AfterParams(st.params.capability)
                      /\ UNCHANGED ret
    /\ UNCHANGED <<op, args, libvirt, sysfs>>

\* supervdsm.getProxy().appropriateIommuGroup(iommu_group)
AppropriateIommuGroup ==
    /\ pc = "appropriate"
    /\ op = "detach_detachable"
    /\ \/ Propagate("appropriateIommuGroup", <<locals.iommu_group>>)
       \/ /\ calls' = Append(calls, Invoked("appropriateIommuGroup",
                                             <<locals.iommu_group>>, TRUE))
          /\ pc' = "udevTrigger"
          /\ UNCHANGED <<locals, ret>>
    /\ UNCHANGED <<op, args, libvirt, sysfs>>

\* supervdsm.getProxy().rmAppropriateIommuGroup(iommu_group)
RmAppropriateIommuGroup ==
    /\ pc = "appropriate"
    /\ op = "reattach_detachable"
    /\ \/ Propagate("rmAppropriateIommuGroup", <<locals.iommu_group>>)
       \/ /\ calls' = Append(calls, Invoked("rmAppropriateIommuGroup",
                                             <<locals.iommu_group>>, TRUE))
          /\ pc' = "udevTrigger"
          /\ UNCHANGED <<locals, ret>>
    /\ UNCHANGED <<op, args, libvirt, sysfs>>

\* A udevTrigger whose failure is swallowed.
UdevTriggerSwallowed ==
    /\ pc = "udevTrigger"
    /\ \E ok \in BOOLEAN :
         calls' = Append(calls, Invoked("udevTrigger", <<locals.iommu_group>>, ok))
    /\ pc' = AfterUdev(locals.device_params.capability)
    /\ UNCHANGED <<op, args, libvirt, sysfs, locals, ret>>

\* supervdsm.getProxy().udevTrigger(iommu_group)
UdevTrigger ==
    /\ pc = "udevTrigger"
    /\ \/ Propagate("udevTrigger", <<locals.iommu_group>>)
       \/ /\ calls' = Append(calls, Invoked("udevTrigger",
                                             <<locals.iommu_group>>, TRUE))
          /\ pc' = AfterUdev(locals.device_params.capability)
          /\ UNCHANGED <<locals, ret>>
    /\ UNCHANGED <<op, args, libvirt, sysfs>>

\* libvirt_device.detachFlags(None)
DetachFlags ==
    /\ pc = "detach"
    /\ op = "detach_detachable"
    /\ \/ Propagate("detachFlags", <<None>>)
       \/ /\ calls' = Append(calls, Invoked("detachFlags", <<None>>, TRUE))
          /\ pc' = "return"
          /\ UNCHANGED <<locals, ret>>
    /\ UNCHANGED <<op, args, libvirt, sysfs>>

\* libvirt_device.reAttach()
ReAttach ==
    /\ pc = "detach"
    /\ op = "reattach_detachable"
    /\ \/ Propagate("reAttach", <<>>)
       \/ /\ calls' = Append(calls, Invoked("reAttach", <<>>, TRUE))
          /\ pc' = "return"
          /\ UNCHANGED <<locals, ret>>
    /\ UNCHANGED <<op, args, libvirt, sysfs>>

\* return device_params
ReturnDetach ==
    /\ pc = "return"
    /\ op = "detach_detachable"
    /\ ret' = Returned(locals.device_params)
    /\ pc' = "done"
    /\ UNCHANGED <<op, args, libvirt, sysfs, locals, calls>>

\* reattach_detachable falls off its end and returns None.
ReturnReattach ==
    /\ pc = "return"
    /\ op = "reattach_detachable"
    /\ ret' = Returned(None)
    /\ pc' = "done"
    /\ UNCHANGED <<op, args, libvirt, sysfs, locals, calls>>

\* supervdsm.getProxy().changeNumvfs(_name_to_pci_path(device_name), numvfs)
ChangeNumvfs ==
    /\ pc = "changeNumvfs"
    /\ LET arguments == <<_name_to_pci_path(args.device_name), args.numvfs>>
       IN  \/ Propagate("changeNumvfs", arguments)
           \/ /\ calls' = Append(calls, Invoked("changeNumvfs", arguments, TRUE))
              /\ ret' = Returned(None)
              /\ pc' = "done"
              /\ UNCHANGED locals
    /\ UNCHANGED <<op, args, libvirt, sysfs>>

\* The caller has the result; nothing of the call is kept.
Finish ==
    /\ pc = "done"
    /\ pc' = "idle"
    /\ op' = "none"
    /\ args' = EmptyDict
    /\ libvirt' = <<>>
    /\ sysfs' = EmptyDict
    /\ locals' = EmptyDict
    /\ calls' = <<>>
    /\ ret' = NoRet

Next ==
    \/ CallDetachDetachable
    \/ CallReattachDetachable
    \/ CallChangeNumvfs
    \/ NodeDeviceLookupByName
    \/ GetParamsAndIommuGroup
    \/ AppropriateIommuGroup
    \/ RmAppropriateIommuGroup
    \/ UdevTrigger
    \/ DetachFlags
    \/ ReAttach
    \/ ReturnDetach
    \/ ReturnReattach
    \/ ChangeNumvfs
    \/ Finish

Spec == Init /\ [][Next]_vars

(***************************************************************************)
(* Properties of the device operator.                                      *)
(***************************************************************************)
\* The calls made after the device lookup and the descriptor read.
OperatorCalls == SubSeq(calls, 3, Len(calls))

CallNames(cs) == [i \in DOMAIN cs |-> cs[i].fn]
CallSignatures(cs) == [i \in DOMAIN cs |-> <<cs[i].fn, cs[i].args>>]
NamesCalled == { calls[i].fn : i \in DOMAIN calls }

IsPrefix(s, t) == Len(s) <= Len(t) /\ s = SubSeq(t, 1, Len(s))

\* The descriptor was parsed: the call has its device_params.
Parsed == "device_params" \in DOMAIN locals
AllCompleted == \A i \in DOMAIN calls : calls[i].ok

PciDetachSequence(group) ==
    << <<"appropriateIommuGroup", <<group>> >>,
       <<"udevTrigger", <<group>> >>,
       <<"detachFlags", <<None>> >> >>

\* C1 as stated: every detach_detachable of a device whose parsed capability
\* is 'pci', with no collaborator failure, ends having invoked
\* appropriateIommuGroup, udevTrigger and the hypervisor detach, in that order.
C1_Original ==
    (/\ pc = "done"
     /\ op = "detach_detachable"
     /\ Parsed
     /\ locals.device_params.capability = PCI
     /\ AllCompleted)
    => CallNames(OperatorCalls)
           = <<"appropriateIommuGroup", "udevTrigger", "detachFlags">>

\* C1, amended: for a device whose parsed capability is 'pci' and whose
\* descriptor carries an iommuGroup (so that iommu_group is parsed), the calls
\* detach_detachable makes after the lookup are at every moment a prefix of
\* appropriateIommuGroup(group), udevTrigger(group), detachFlags(None), with
\* group the parsed iommu_group; the detach is invoked only after both helper
\* calls completed; and a call that meets no collaborator failure ends with
\* the whole sequence and returns the parameters.
C1_PciDetachSequence ==
    (/\ op = "detach_detachable"
     /\ Parsed
     /\ locals.device_params.capability = PCI
     /\ "iommu_group" \in DOMAIN locals.device_params)
    => LET expected == PciDetachSequence(locals.device_params.iommu_group)
           made == CallSignatures(OperatorCalls)
       IN  /\ IsPrefix(made, expected)
           /\ \A i \in DOMAIN calls :
                  calls[i].fn = "detachFlags" =>
                      /\ i = 5
                      /\ calls[3].fn = "appropriateIommuGroup" /\ calls[3].ok
                      /\ calls[4].fn = "udevTrigger" /\ calls[4].ok
           /\ (pc = "done" /\ AllCompleted) =>
                  /\ made = expected
                  /\ ret.exc = NoExc
                  /\ ret.value = locals.device_params

\* A pci device with an iommuGroup was detached with no failure.
C1_Witness ==
    /\ pc = "done"
    /\ op = "detach_detachable"
    /\ Parsed
    /\ locals.device_params.capability = PCI
    /\ "iommu_group" \in DOMAIN locals.device_params
    /\ AllCompleted
    /\ Len(calls) = 5
    /\ ret.exc = NoExc

\* C2: detach_detachable of a device whose parsed capability is 'usb_device',
\* with or without an iommuGroup in its descriptor, invokes no helper call,
\* invokes the hypervisor detach exactly once and returns the parameters.
C2_UsbDetach ==
    (/\ pc = "done"
     /\ op = "detach_detachable"
     /\ Parsed
     /\ locals.device_params.capability = USB_DEVICE
     /\ AllCompleted)
    => /\ CallNames(OperatorCalls) = <<"detachFlags">>
       /\ ret.exc = NoExc
       /\ ret.value = locals.device_params

\* C3: reattach_detachable with no collaborator failure invokes, for 'pci',
\* rmAppropriateIommuGroup(group), udevTrigger(group) and the hypervisor
\* reattach in that order, and for 'usb_device' the hypervisor reattach alone.
C3_ReattachMirrorsDetach ==
    (/\ pc = "done"
     /\ op = "reattach_detachable"
     /\ Parsed
     /\ AllCompleted)
    => /\ locals.device_params.capability = PCI =>
            /\ CallNames(OperatorCalls)
                   = <<"rmAppropriateIommuGroup", "udevTrigger", "reAttach">>
            /\ OperatorCalls[1].args = <<locals.device_params.iommu_group>>
            /\ OperatorCalls[2].args = <<locals.device_params.iommu_group>>
       /\ locals.device_params.capability = USB_DEVICE =>
            CallNames(OperatorCalls) = <<"reAttach">>

\* C7: no collaborator call is made twice in one operation; a call that
\* failed is the last one made and the caller sees its failure; an unknown
\* device name ends the operation with the lookup's failure; and an operation
\* that returns normally had every call complete and made the hypervisor
\* and helper calls its capability requires.
C7_FailurePropagates ==
    /\ \A i, j \in DOMAIN calls : i # j => calls[i].fn # calls[j].fn
    /\ \A i \in DOMAIN calls :
           ~calls[i].ok =>
               /\ i = Len(calls)
               /\ pc = "done"
               /\ ret = Propagated(CallError(calls[i].fn))
    /\ (/\ op \in {"detach_detachable", "reattach_detachable"}
        /\ pc \notin {"idle", "lookup"}
        /\ IsNone(LookupByName(libvirt, args.device_name)))
       => /\ pc = "done"
          /\ Len(calls) = 1
          /\ ret = Propagated(CallError("nodeDeviceLookupByName"))
    /\ (pc = "done" /\ ret.exc = NoExc) =>
           /\ AllCompleted
           /\ op = "change_numvfs" => CallNames(calls) = <<"changeNumvfs">>
           /\ op = "detach_detachable" =>
                  /\ locals.device_params.capability \in {USB_DEVICE, PCI}
                         => "detachFlags" \in NamesCalled
                  /\ locals.device_params.capability = PCI
                         => {"appropriateIommuGroup", "udevTrigger"} \subseteq NamesCalled
           /\ op = "reattach_detachable" =>
                  /\ locals.device_params.capability \in {USB_DEVICE, PCI}
                         => "reAttach" \in NamesCalled
                  /\ locals.device_params.capability = PCI
                         => {"rmAppropriateIommuGroup", "udevTrigger"} \subseteq NamesCalled

\* A helper call failed after an earlier helper call had completed.
C7_Witness ==
    /\ pc = "done"
    /\ Len(calls) = 4
    /\ calls[3].ok
    /\ ~calls[4].ok
    /\ ret.exc = CallError("udevTrigger")

\* C10: in an operation that returns, the helper calls are invoked if and
\* only if the capability equals 'pci', and the hypervisor detach / reattach
\* if and only if it equals 'usb_device' or 'pci'.
C10_ExactGates ==
    (/\ pc = "done"
     /\ op \in {"detach_detachable", "reattach_detachable"}
     /\ ret.exc = NoExc)
    => /\ (NamesCalled \cap HelperCalls # {})
              <=> (locals.device_params.capability = PCI)
       /\ (NamesCalled \cap {"detachFlags", "reAttach"} # {})
              <=> (locals.device_params.capability \in {USB_DEVICE, PCI})

(***************************************************************************)
(* _get_devices_from_libvirt, _get_devices_from_vms and list_by_caps.      *)
(***************************************************************************)
\* dict((device.name(), _parse_device_params(device.XMLDesc(0))) for device in
\* listAllDevices(0)): the devices in order, up to the first exception.
RECURSIVE DevicesFromLibvirt(_, _, _)
DevicesFromLibvirt(devices, files, st) ==
    IF Raised(st) \/ Len(devices) = 0 THEN st
    ELSE LET device == Head(devices)
             parsed == _parse_device_params(device.xml, files)
         IN  IF Raised(parsed) THEN Raise(parsed.exc.type, parsed.exc.at, st.params)
             ELSE DevicesFromLibvirt(Tail(devices), files,
                                     Ok(DictSet(st.params, device.name, parsed.params)))

_get_devices_from_libvirt(devices, files) ==
    DevicesFromLibvirt(devices, files, Ok(EmptyDict))

\* The inner loop: for device in VM.conf['devices'], without the test of
\* device['device'].
RECURSIVE DevicesOfVmAnyType(_, _, _)
DevicesOfVmAnyType(vmId, entries, devices) ==
    IF Len(entries) = 0 THEN devices
    ELSE LET device == Head(entries)
         IN  DevicesOfVmAnyType(vmId, Tail(entries),
                 IF "name" \in DOMAIN device
                 THEN DictSet(devices, device.name, vmId)
                 ELSE devices)

\* The inner loop: for device in VM.conf['devices'].
RECURSIVE DevicesOfVm(_, _, _)
DevicesOfVm(vmId, entries, devices) ==
    IF Len(entries) = 0 THEN devices
    ELSE LET device == Head(entries)
         IN  DevicesOfVm(vmId, Tail(entries),
                 IF device.device = "hostdev"
                 THEN DictSet(devices, device.name, vmId)
                 ELSE devices)

\* The outer loop: for vmId, VM in vmContainer.items(), in the order the
\* dict yields them.
RECURSIVE DevicesFromVms(_, _, _)
DevicesFromVms(vmContainer, order, devices) ==
    IF Len(order) = 0 THEN devices
    ELSE DevicesFromVms(vmContainer, Tail(order),
             DevicesOfVm(Head(order), vmContainer[Head(order)].conf.devices, devices))

_get_devices_from_vms(vmContainer, order) ==
    DevicesFromVms(vmContainer, order, EmptyDict)

\* if caps and params['capability'] not in caps: continue
Skipped(caps, params) ==
    /\ ~IsNone(caps)
    /\ Len(caps[1]) > 0
    /\ ~TupleContains(caps[1], params.capability)

\* The loop of list_by_caps over libvirt_devices.items().
ListedDevices(libvirt_devices, device_to_vm, caps) ==
    [ devName \in { n \in DOMAIN libvirt_devices : ~Skipped(caps, libvirt_devices[n]) } |->
        IF devName \in DOMAIN device_to_vm
        THEN [params |-> libvirt_devices[devName], vmId |-> device_to_vm[devName]]
        ELSE [params |-> libvirt_devices[devName]] ]

(***************************************************************************)
(* The hosts, VM containers and filters list_by_caps is run on.            *)
(***************************************************************************)
ListDescriptor(n, p, t, g) ==
    Device(<<Text("name", n)>>, p,
           <<CapabilityElement([type |-> t],
                <<Element("vendor", [id |-> Str_8086], Some(Str_Intel), <<>>)>>
                \o g \o FullAddressKids(t))>>)

ParentComputer == <<Text("parent", COMPUTER)>>
IommuGroup5 == <<Empty("iommuGroup", [number |-> Str_5])>>

\* A pci device, a usb device, a device of a capability with no address
\* parser, and a pci device whose descriptor has no <parent>.
ListDevicePool ==
    << NodeDevice(Str_pci_0000_03_00_0,
                  ListDescriptor(Str_pci_0000_03_00_0, ParentComputer, PCI, IommuGroup5)),
       NodeDevice(Str_usb_1_1,
                  ListDescriptor(Str_usb_1_1, ParentComputer, USB_DEVICE, <<>>)),
       NodeDevice(Str_net_eth0,
                  ListDescriptor(Str_net_eth0, ParentComputer, Str_net, <<>>)),
       NodeDevice(Str_pci_0000_05_10_1,
                  ListDescriptor(Str_pci_0000_05_10_1, <<>>, PCI, IommuGroup5)) >>

\* The devices of the pool at the indices in S, in pool order.
RECURSIVE PoolDevices(_, _)
PoolDevices(i, S) ==
    IF i > Len(ListDevicePool) THEN <<>>
    ELSE (IF i \in S THEN <<ListDevicePool[i]>> ELSE <<>>) \o PoolDevices(i + 1, S)

ListHosts ==
    { PoolDevices(1, S) : S \in { T \in SUBSET DOMAIN ListDevicePool :
                                    Cardinality(T) <= MaxDevs } }

Hostdev(name) == [device |-> "hostdev", name |-> name]

VmDeviceLists ==
    { <<>>,
      <<Hostdev(Str_pci_0000_03_00_0)>>,
      <<[device |-> "disk"], Hostdev(Str_usb_1_1)>>,
      <<[device |-> "disk", name |-> Str_net_eth0], Hostdev(Str_pci_0000_03_00_0)>> }

VM(devices) == [conf |-> [devices |-> devices]]

\* vmId -> VM, for at most MaxVMs VMs.
VmContainers ==
    UNION { [ids -> { VM(d) : d \in VmDeviceLists }] : ids \in SUBSET (1..MaxVMs) }

CapsFilters == { None, Some(<<>>), Some(<<PCI>>), Some(<<USB_DEVICE, Str_net>>) }

\* The orders in which a dict of these keys can yield them.
Orders(keys) ==
    { o \in [1..Cardinality(keys) -> keys] :
        \A i, j \in 1..Cardinality(keys) : i # j => o[i] # o[j] }

InitList ==
    /\ pc = "call"
    /\ op = "list_by_caps"
    /\ args \in [vmContainer : VmContainers, caps : CapsFilters]
    /\ libvirt \in ListHosts
    /\ sysfs \in OperatorSysfs
    /\ locals = EmptyDict
    /\ calls = <<>>
    /\ ret = NoRet

XMLDescCalls(n, failed) ==
    [i \in 1..n |-> Invoked("XMLDesc", <<>>, ~(failed /\ i = n))]

\* libvirt_devices = _get_devices_from_libvirt(): listAllDevices raises, or
\* the XMLDesc of the k-th device raises, or no call does.
GetDevicesFromLibvirt ==
    /\ pc = "call"
    /\ op = "list_by_caps"
    /\ \/ /\ calls' = <<Invoked("listAllDevices", <<>>, FALSE)>>
          /\ ret' = Propagated(CallError("listAllDevices"))
          /\ pc' = "done"
          /\ UNCHANGED locals
       \/ \E k \in DOMAIN libvirt :
            LET st == _get_devices_from_libvirt(SubSeq(libvirt, 1, k - 1), sysfs)
            IN  /\ ~Raised(st)
                /\ calls' = <<Invoked("listAllDevices", <<>>, TRUE)>>
                                \o XMLDescCalls(k, TRUE)
                /\ ret' = Propagated(CallError("XMLDesc"))
                /\ pc' = "done"
                /\ UNCHANGED locals
       \/ LET st == _get_devices_from_libvirt(libvirt, sysfs)
              n == IF Raised(st) THEN Cardinality(DOMAIN st.params) + 1
                   ELSE Len(libvirt)
          IN  /\ calls' = <<Invoked("listAllDevices", <<>>, TRUE)>>
                              \o XMLDescCalls(n, FALSE)
              /\ IF Raised(st)
                 THEN /\ ret' = Propagated(st.exc)
                      /\ pc' = "done"
                      /\ UNCHANGED locals
                 ELSE /\ locals' = [libvirt_devices |-> st.params]
                      /\ pc' = "vms"
                      /\ UNCHANGED ret
    /\ UNCHANGED <<op, args, libvirt, sysfs>>

\* device_to_vm = _get_devices_from_vms(vmContainer)
GetDevicesFromVms ==
    /\ pc = "vms"
    /\ \E order \in Orders(DOMAIN args.vmContainer) :
         locals' = [libvirt_devices |-> locals.libvirt_devices,
                    device_to_vm |-> _get_devices_from_vms(args.vmContainer, order)]
    /\ pc' = "filter"
    /\ UNCHANGED <<op, args, libvirt, sysfs, calls, ret>>

\* The loop over libvirt_devices.items() and return devices.
ReturnDevices ==
    /\ pc = "filter"
    /\ ret' = Returned(ListedDevices(locals.libvirt_devices, locals.device_to_vm,
                                     args.caps))
    /\ pc' = "done"
    /\ UNCHANGED <<op, args, libvirt, sysfs, locals, calls>>

NextList == GetDevicesFromLibvirt \/ GetDevicesFromVms \/ ReturnDevices

SpecList == InitList /\ [][NextList]_vars

\* The device enumerator as a whole: the parser on every descriptor, and
\* list_by_caps on every host.
SpecEnumerator == (InitParse \/ InitList) /\ [][NextParse \/ NextList]_vars

(***************************************************************************)
(* What a descriptor holds, read off the document itself.                  *)
(***************************************************************************)
Children(element, tag) ==
    { element.children[i] : i \in { j \in DOMAIN element.children :
                                      element.children[j].tag = tag } }

HasName(xml) == Children(xml, "name") # {}
HasCapability(xml) ==
    /\ Children(xml, "capability") # {}
    /\ "type" \in DOMAIN Find(xml, "capability")[1].attrib
NameIn(xml) == Find(xml, "name")[1].text[1]
CapabilityIn(xml) == Find(xml, "capability")[1].attrib.type
HasAddressParser(capability) == capability \in {PCI, SCSI, USB_DEVICE}

\* Whatever optional part is present is whole: a nested capability has its
\* type, a phys_function its address with the four attributes, an iommuGroup
\* its number.
PresentPartsWhole(xml) ==
    LET caps == Find(xml, "capability")[1]
    IN  /\ \A c \in Children(caps, "capability") :
               /\ "type" \in DOMAIN c.attrib
               /\ c.attrib.type = PHYS_FUNCTION =>
                      \E a \in Children(c, "address") :
                          DOMAIN a.attrib = {"domain", "bus", "slot", "function"}
        /\ \A g \in Children(caps, "iommuGroup") : "number" \in DOMAIN g.attrib

\* Every sriov_totalvfs file that exists holds a decimal number.
SysfsReadable(files) ==
    \A path \in DOMAIN files : IsDecimal(StripRight(StripLeft(files[path])))

\* A descriptor with nothing missing but, possibly, the sriov_totalvfs file
\* and an address parser for its capability.
CompleteDescriptor(xml) ==
    /\ HasName(xml)
    /\ NameIn(xml) = COMPUTER \/ Children(xml, "parent") # {}
    /\ HasCapability(xml)
    /\ PresentPartsWhole(xml)
    /\ \A i \in DOMAIN FullAddressKids(CapabilityIn(xml)) :
           Children(Find(xml, "capability")[1],
                    FullAddressKids(CapabilityIn(xml))[i].tag) # {}

(***************************************************************************)
(* Properties of the parser and of the listing.                            *)
(***************************************************************************)
\* C6: a descriptor that has a name and a capability parses to a mapping
\* whichever optional parts are absent (parent, vendor / product / interface,
\* the nested phys_function, the iommuGroup, the address sub-elements), and a
\* descriptor missing its name or its capability fails.
C6_OnlyMandatoryFieldsRaise ==
    (pc = "done" /\ op = "_parse_device_params") =>
        LET xml == args.device_xml
        IN  /\ (/\ HasName(xml)
                /\ HasCapability(xml)
                /\ PresentPartsWhole(xml)
                /\ SysfsReadable(sysfs))
               => ret.exc = NoExc
            /\ (~HasName(xml) \/ ~HasCapability(xml)) => ret.exc # NoExc

\* C8: 'physfn' is produced exactly when the outer capability is 'pci' and
\* some nested capability block, wherever it stands, is of type
\* 'phys_function', and is then the name of its embedded address.
C8_PhysfnIffNestedPhysFunction ==
    (pc = "done" /\ op = "_parse_device_params" /\ ret.exc = NoExc) =>
        LET caps == Find(args.device_xml, "capability")[1]
            physfns == { c \in Children(caps, "capability") :
                           "type" \in DOMAIN c.attrib /\ c.attrib.type = PHYS_FUNCTION }
        IN  /\ "physfn" \in DOMAIN ret.value
                   <=> (caps.attrib.type = PCI /\ physfns # {})
            /\ "physfn" \in DOMAIN ret.value =>
                   \E c \in physfns : \E a \in Children(c, "address") :
                       ret.value.physfn = _pci_address_to_name(
                           a.attrib.domain, a.attrib.bus, a.attrib.slot,
                           a.attrib.function)

\* The hypervisor-listed devices the filter admits, and the VMs that hold a
\* device as a hostdev.
Admitted(caps, capability) ==
    \/ IsNone(caps)
    \/ Len(caps[1]) = 0
    \/ \E i \in DOMAIN caps[1] : caps[1][i] = capability

HostDevice(name) == CHOOSE d \in { libvirt[i] : i \in DOMAIN libvirt } : d.name = name

Holders(vmContainer, name) ==
    { vmId \in DOMAIN vmContainer :
        \E i \in DOMAIN vmContainer[vmId].conf.devices :
            /\ vmContainer[vmId].conf.devices[i].device = "hostdev"
            /\ vmContainer[vmId].conf.devices[i].name = name }

\* C5: a list_by_caps that returns, returns one entry for each listed device
\* whose capability the filter admits (all of them under an empty or absent
\* filter) and for no other name; an entry has a vmId exactly when some VM
\* has a hostdev entry of that name, and the vmId is such a VM's.
C5_ListByCaps ==
    (pc = "done" /\ op = "list_by_caps" /\ ret.exc = NoExc) =>
        LET devices == ret.value
        IN  /\ DOMAIN devices
                   = { libvirt[i].name : i \in { j \in DOMAIN libvirt :
                           Admitted(args.caps, CapabilityIn(libvirt[j].xml)) } }
            /\ \A name \in DOMAIN devices :
                   /\ devices[name].params.capability
                          = CapabilityIn(HostDevice(name).xml)
                   /\ "vmId" \in DOMAIN devices[name]
                          <=> Holders(args.vmContainer, name) # {}
                   /\ "vmId" \in DOMAIN devices[name]
                          => devices[name].vmId \in Holders(args.vmContainer, name)

\* A filtered listing returned: a device was left out, a listed device is
\* held by a VM, and a listed device is named only by a VM's non-hostdev entry.
C5_Witness ==
    /\ pc = "done"
    /\ op = "list_by_caps"
    /\ ret.exc = NoExc
    /\ ~IsNone(args.caps)
    /\ Cardinality(DOMAIN ret.value) < Len(libvirt)
    /\ \E name \in DOMAIN ret.value : "vmId" \in DOMAIN ret.value[name]
    /\ \E name \in DOMAIN ret.value :
           /\ "vmId" \notin DOMAIN ret.value[name]
           /\ \E vmId \in DOMAIN args.vmContainer :
                  \E i \in DOMAIN args.vmContainer[vmId].conf.devices :
                      LET device == args.vmContainer[vmId].conf.devices[i]
                      IN  "name" \in DOMAIN device /\ device.name = name

\* What the parser makes of the pool's first device with no sriov_totalvfs.
ScenarioParams ==
    [capability |-> PCI, iommu_group |-> Str_5,
     address |-> [domain |-> Some(<<"0">>), bus |-> Some(<<"3">>),
                  slot |-> Some(<<"0">>), function |-> Some(<<"0">>)],
     parent |-> Some(COMPUTER), vendor |-> Str_Intel, vendor_id |-> Str_8086]

\* An absent sriov_totalvfs and a capability with no address parser raise
\* nothing and cost the one field, for one descriptor.
ToleratedInParse(xml, files, result) ==
    /\ result.exc.type # "IOError"
    /\ result.exc.at \notin {"open", "address_parser"}
    /\ (CompleteDescriptor(xml) /\ SysfsReadable(files)) => result.exc = NoExc
    /\ (HasName(xml) /\ _name_to_pci_path(NameIn(xml)) \notin DOMAIN files) =>
           LET with == _parse_device_params(xml, SysfsFile(NameIn(xml), Str_7))
           IN  /\ result.exc = with.exc
               /\ result.exc = NoExc =>
                      /\ "totalvfs" \notin DOMAIN result.value
                      /\ with.params = DictSet(result.value, "totalvfs", 7)
    /\ (HasCapability(xml) /\ ~HasAddressParser(CapabilityIn(xml))) =>
           /\ result.exc.at # "address"
           /\ result.exc = NoExc => "address" \notin DOMAIN result.value
    /\ (xml = ListDevicePool[1].xml /\ files = EmptyDict) =>
           /\ result.exc = NoExc
           /\ result.value = ScenarioParams

\* C9: an absent sriov_totalvfs file leaves the mapping without 'totalvfs'
\* and otherwise as it would be, a capability with no address parser leaves it
\* without 'address', neither raises; and list_by_caps still lists such
\* devices and the others.
C9_ToleratedFailuresOmitField ==
    /\ (pc = "done" /\ op = "_parse_device_params") =>
           ToleratedInParse(args.device_xml, sysfs, ret)
    /\ (pc = "done" /\ op = "list_by_caps") =>
           /\ ret.exc.type # "IOError"
           /\ ret.exc.at \notin {"open", "address_parser"}
           /\ (AllCompleted /\ \A i \in DOMAIN libvirt : CompleteDescriptor(libvirt[i].xml))
                  => ret.exc = NoExc
           /\ ret.exc = NoExc =>
                  \A i \in DOMAIN libvirt :
                      LET name == libvirt[i].name
                          capability == CapabilityIn(libvirt[i].xml)
                      IN  Admitted(args.caps, capability) =>
                              /\ name \in DOMAIN ret.value
                              /\ _name_to_pci_path(name) \notin DOMAIN sysfs
                                     => "totalvfs" \notin DOMAIN ret.value[name].params
                              /\ ~HasAddressParser(capability)
                                     => "address" \notin DOMAIN ret.value[name].params

\* A host with a pci device without sriov_totalvfs and a device of a
\* capability with no address parser was listed, both devices included.
C9_Witness ==
    /\ pc = "done"
    /\ op = "list_by_caps"
    /\ ret.exc = NoExc
    /\ sysfs = EmptyDict
    /\ {Str_pci_0000_03_00_0, Str_net_eth0} \subseteq DOMAIN ret.value
    /\ "address" \in DOMAIN ret.value[Str_pci_0000_03_00_0].params
    /\ "address" \notin DOMAIN ret.value[Str_net_eth0].params

====
